---------------------------- MODULE Spec2Model ----------------------------
(***************************************************************************)
(* Trust & abuse-control subsystem of the client-verification service:     *)
(* the review ledger with its moderation operations (ReviewService), the   *)
(* client aggregate recomputed from it, the AI safety score derived from   *)
(* the stored analyses (AiAnalysisService), and the rate limiter            *)
(* (RateLimitService).                                                      *)
(*                                                                          *)
(* Every service method is an async function.  A method is modelled as a   *)
(* process that runs from one await to the next: the Begin action is the   *)
(* synchronous prefix of the method (argument validation, Date.now()), and *)
(* each further action is one store call (one Prisma query) together with  *)
(* the synchronous code that follows it.  A store call is atomic; nothing  *)
(* else is.  "One at a time" specifications run a single process, the      *)
(* concurrent ones run NumProcs processes that each make one call.         *)
(***************************************************************************)
EXTENDS Integers, Sequences, FiniteSets, TLC

VARIABLES
    reviews,        \* table reviews: sequence of rows, the id is the index
    clients,        \* table client_profiles: id -> derived fields
    adminActions,   \* table admin_actions: the set of rows written
    rateLimits,     \* table rate_limits: sequence of rows, the id is the index
    analyses,       \* table ai_analyses: sequence of rows in createdAt order
    now,            \* Date.now(), in minutes
    pc,             \* per process: the await it stands at
    call,           \* per process: the method called and its arguments
    local,          \* per process: the method's local variables
    result,         \* per process: what the last call returned
    attempts,       \* history: per (actor, actionType) the calls made so far
    reviews0,       \* history: the review ledger of the initial state
    botConfigs,     \* table bot_configurations: key -> JSON text of the value
    configCache,    \* BotConfigService.configCache: key -> value
    cacheExpiry     \* BotConfigService.cacheExpiry: key -> time

vars == <<reviews, clients, adminActions, rateLimits, analyses, now, pc, call,
          local, result, attempts, reviews0, botConfigs, configCache, cacheExpiry>>

reviewVars == <<reviews, clients, adminActions, reviews0>>
rateVars == <<rateLimits, now, attempts>>
aiVars == <<analyses>>
configVars == <<botConfigs, configCache, cacheExpiry>>

-----------------------------------------------------------------------------
(* Bounds of the model *)

\* rows the reviews table may hold
MaxReviews == 2
\* flags filed, over all reviews, by sequential flagReview calls
MaxFlags == 3
\* processes of the concurrent specifications
NumProcs == 3
\* last minute of the clock
MaxTime == 2
\* checkRateLimit calls made, over all actors, by a sequential caller
MaxCalls == 4
\* rows the ai_analyses table may hold
MaxAnalyses == 7
\* runs of each recomputation on an unchanged ledger
MaxRuns == 2
\* requests in the list of one checkMultipleActions call
MaxRequests == 2
\* checkRateLimit calls made, over all actors, under one configuration
MaxBurstCalls == 5
\* last minute of the clock of the configuration service
MaxConfigTime == 6

-----------------------------------------------------------------------------
(* Program constants *)

AUTO_HIDE_FLAG_THRESHOLD == 3
MIN_RATING == 1
MAX_RATING == 5
MIN_AI_SCORE == 0
MAX_AI_SCORE == 10
\* BotConfigService.CACHE_TTL, in minutes
CACHE_TTL == 5

\* the absent value of an optional number (undefined; 0 is falsy as well)
Undefined == 0
\* null, and the value no query row was found for
Null == << >>

Procs == 1..NumProcs

\* client profiles that exist
ClientIds == {1}
\* table users: id -> role
UserRole == [u \in {1, 2, 3} |-> IF u = 3 THEN "ADMIN" ELSE "USER"]
UserIds == DOMAIN UserRole
ReviewerIds == {1, 2}
\* who calls updateReview: a reviewer (of its own and of another's review), the admin
CallerIds == {1, 3}
\* who flags and deletes: the id only lands in the audit row
ModeratorIds == {3}
\* ratings a request may carry: the ends of the valid range and one beyond
RatingInputs == {MIN_RATING, MIN_RATING + 1, MAX_RATING + 1}
\* ratings an update request may carry, or none
UpdateRatingInputs == {Undefined, MIN_RATING + 1, MAX_RATING + 1}

\* an actor of the rate limiter: a user id, a telegram id, or neither
ActorInputs == {[userId |-> 1, telegramId |-> Undefined],
                [userId |-> Undefined, telegramId |-> 7],
                [userId |-> Undefined, telegramId |-> Undefined]}
\* action types of the requests: one of DEFAULT_RATE_LIMITS
ActionTypes == {"password_reset"}
\* the per-request override <<maxAttempts, windowMinutes>>: none, both, one only
LimitInputs == {<<Undefined, Undefined>>, <<2, 1>>, <<1, Undefined>>}

\* DEFAULT_RATE_LIMITS[actionType], or Null when the table has no such key
DEFAULT_RATE_LIMITS(actionType) ==
    CASE actionType = "create_review" -> <<[maxAttempts |-> 5, windowMinutes |-> 60]>>
      [] actionType = "upload_photo" -> <<[maxAttempts |-> 10, windowMinutes |-> 60]>>
      [] actionType = "search_client" -> <<[maxAttempts |-> 50, windowMinutes |-> 60]>>
      [] actionType = "create_client" -> <<[maxAttempts |-> 10, windowMinutes |-> 60]>>
      [] actionType = "send_message" -> <<[maxAttempts |-> 100, windowMinutes |-> 60]>>
      [] actionType = "api_request" -> <<[maxAttempts |-> 1000, windowMinutes |-> 60]>>
      [] actionType = "login_attempt" -> <<[maxAttempts |-> 5, windowMinutes |-> 15]>>
      [] actionType = "password_reset" -> <<[maxAttempts |-> 3, windowMinutes |-> 60]>>
      [] OTHER -> Null

-----------------------------------------------------------------------------
(* Pure helpers *)

RECURSIVE GCD(_, _)
GCD(a, b) == IF b = 0 THEN a ELSE GCD(b, a % b)

\* the rational n/d in lowest terms
Fraction(n, d) == LET g == GCD(n, d) IN <<n \div g, d \div g>>

RECURSIVE SumRatings(_, _)
SumRatings(rows, ids) ==
    IF ids = {} THEN 0
    ELSE LET i == CHOOSE x \in ids : TRUE
         IN rows[i].rating + SumRatings(rows, ids \ {i})

RECURSIVE TotalFlags(_)
TotalFlags(rows) ==
    IF rows = << >> THEN 0 ELSE Head(rows).flaggedCount + TotalFlags(Tail(rows))

\* a JavaScript falsy value among the ones a number column can hold
Falsy(x) == x = Null \/ x[1] = 0


-----------------------------------------------------------------------------
(* Process bookkeeping *)

NoCall == [op |-> "none"]
NoLocal == [none |-> TRUE]
NoResult == [success |-> FALSE, error |-> "none"]

Goto(p, label) == pc' = [pc EXCEPT ![p] = label]

\* the method returns r to its caller; its local variables are gone
Return(p, r) ==
    /\ pc' = [pc EXCEPT ![p] = "done"]
    /\ result' = [result EXCEPT ![p] = r]
    /\ local' = [local EXCEPT ![p] = NoLocal]

\* { success: false, error }
Failure(e) == [success |-> FALSE, error |-> e]

\* { success: true, data: review }
ReviewSuccess(row) == [success |-> TRUE, error |-> "", review |-> row]


-----------------------------------------------------------------------------
(* ReviewService: queries and pure parts *)

\* z.number().int().min(MIN_RATING).max(MAX_RATING)
ValidRating(rating) == rating \in MIN_RATING..MAX_RATING

\* ids of the rows findFirst may return for
\* { clientProfileId, reviewerId, status: { not: "DELETED" } }
FindExistingReview_ActiveOnly(rows, c, r) ==
    {i \in DOMAIN rows : /\ rows[i].clientProfileId = c
                         /\ rows[i].reviewerId = r
                         /\ rows[i].status = "ACTIVE"}

FindExistingReview(rows, c, r) ==
    {i \in DOMAIN rows : /\ rows[i].clientProfileId = c
                         /\ rows[i].reviewerId = r
                         /\ rows[i].status # "DELETED"}

\* the row review.create inserts
NewReview(c, r, rating) ==
    [clientProfileId |-> c, reviewerId |-> r, rating |-> rating,
     status |-> "ACTIVE", flaggedCount |-> 0]

\* the row after data: { flaggedCount: { increment: 1 }, status: "FLAGGED" }
FlaggedRow_SetToOne(row) == [row EXCEPT !.flaggedCount = 1, !.status = "FLAGGED"]

FlaggedRow(row) == [row EXCEPT !.flaggedCount = @ + 1, !.status = "FLAGGED"]

\* review.flaggedCount >= AUTO_HIDE_FLAG_THRESHOLD, on the row the update returned
ShouldAutoHide_Above(row) == row.flaggedCount > AUTO_HIDE_FLAG_THRESHOLD

ShouldAutoHide(row) == row.flaggedCount >= AUTO_HIDE_FLAG_THRESHOLD

\* review.aggregate({ where: { clientProfileId, status: "ACTIVE" },
\*                    _count: true, _avg: { rating: true } })
ActiveReviewIds(rows, c) ==
    {i \in DOMAIN rows : rows[i].clientProfileId = c /\ rows[i].status = "ACTIVE"}

AggregateActive(rows, c) ==
    LET ids == ActiveReviewIds(rows, c)
    IN [count |-> Cardinality(ids),
        avg |-> IF ids = {} THEN Null
                ELSE Fraction(SumRatings(rows, ids), Cardinality(ids))]

\* data: { totalReviews: stats._count, averageRating: stats._avg.rating || null }
StatsUpdate_ZeroAverage(row, stats) ==
    [row EXCEPT !.totalReviews = stats.count,
                !.averageRating = IF Falsy(stats.avg) THEN <<0, 1>> ELSE stats.avg]

StatsUpdate_Accumulate(row, stats) ==
    [row EXCEPT !.totalReviews = @ + stats.count,
                !.averageRating = IF Falsy(stats.avg) THEN Null ELSE stats.avg]

StatsUpdate(row, stats) ==
    [row EXCEPT !.totalReviews = stats.count,
                !.averageRating = IF Falsy(stats.avg) THEN Null ELSE stats.avg]

\* canUserModifyReview: the reviewer, or a user whose role is ADMIN or MANAGER
CanUserModifyReview_AnyKnownUser(userId, row) ==
    \/ row.reviewerId = userId
    \/ userId \in UserIds

CanUserModifyReview(userId, row) ==
    \/ row.reviewerId = userId
    \/ userId \in UserIds /\ UserRole[userId] \in {"ADMIN", "MANAGER"}

\* the admin_actions row of a moderation action
AuditRow(adminId, id, action, flagCount) ==
    [adminId |-> adminId, targetId |-> id, action |-> action, flagCount |-> flagCount]

-----------------------------------------------------------------------------
(* ReviewService.createReview.  The call action is the method up to the
   answer of its first query: CreateReviewSchema.parse, then findFirst. *)

CreateReview(p, c, rating, reviewerId) ==
    /\ call' = [call EXCEPT ![p] = [op |-> "createReview", clientProfileId |-> c,
                                    rating |-> rating, reviewerId |-> reviewerId]]
    /\ IF ~ValidRating(rating)
       THEN Return(p, Failure("ValidationError"))
       ELSE IF FindExistingReview(reviews, c, reviewerId) # {}
       THEN Return(p, Failure("DUPLICATE_REVIEW"))
       ELSE /\ Goto(p, "cr_create")
            /\ result' = [result EXCEPT ![p] = NoResult]
            /\ UNCHANGED local
    /\ UNCHANGED <<reviewVars, rateVars, aiVars, configVars>>

CreateInsert(p) ==
    /\ pc[p] = "cr_create"
    /\ reviews' = Append(reviews, NewReview(call[p].clientProfileId,
                                            call[p].reviewerId, call[p].rating))
    /\ local' = [local EXCEPT ![p] = [review |-> reviews'[Len(reviews) + 1]]]
    /\ Goto(p, "stats_read")
    /\ UNCHANGED <<clients, adminActions, reviews0, rateVars, call, result, aiVars, configVars>>

-----------------------------------------------------------------------------
(* ReviewService.updateClientStatistics, called by create, update and delete *)

StatsAggregate(p) ==
    /\ pc[p] = "stats_read"
    /\ local' = [local EXCEPT ![p] =
                    [review |-> local[p].review,
                     stats |-> AggregateActive(reviews, local[p].review.clientProfileId)]]
    /\ Goto(p, "stats_write")
    /\ UNCHANGED <<reviewVars, rateVars, call, result, aiVars, configVars>>

StatsWrite(p) ==
    /\ pc[p] = "stats_write"
    /\ clients' = [clients EXCEPT ![local[p].review.clientProfileId] =
                      StatsUpdate(@, local[p].stats)]
    /\ IF call[p].op = "deleteReview"
       THEN Goto(p, "del_audit") /\ UNCHANGED <<result, local>>
       ELSE Return(p, ReviewSuccess(local[p].review))
    /\ UNCHANGED <<reviews, adminActions, reviews0, rateVars, call, aiVars, configVars>>

-----------------------------------------------------------------------------
(* ReviewService.updateReview.  The call action is UpdateReviewSchema.parse,
   findUnique and canUserModifyReview (the users table does not change). *)

UpdateReview(p, id, rating, updatedBy) ==
    /\ call' = [call EXCEPT ![p] = [op |-> "updateReview", id |-> id,
                                    rating |-> rating, updatedBy |-> updatedBy]]
    /\ IF ~(rating = Undefined \/ ValidRating(rating))
       THEN Return(p, Failure("ValidationError"))
       ELSE IF id \notin DOMAIN reviews
       THEN Return(p, Failure("Review not found"))
       ELSE IF ~CanUserModifyReview(updatedBy, reviews[id])
       THEN Return(p, Failure("Not authorized to update this review"))
       ELSE /\ Goto(p, "upd_write")
            /\ local' = [local EXCEPT ![p] = [review |-> reviews[id]]]
            /\ result' = [result EXCEPT ![p] = NoResult]
    /\ UNCHANGED <<reviewVars, rateVars, aiVars, configVars>>

UpdateWrite(p) ==
    /\ pc[p] = "upd_write"
    /\ reviews' = [reviews EXCEPT ![call[p].id].rating =
                      IF call[p].rating = Undefined THEN @ ELSE call[p].rating]
    /\ IF call[p].rating # Undefined
       THEN /\ Goto(p, "stats_read")
            /\ local' = [local EXCEPT ![p] = [review |-> reviews'[call[p].id]]]
            /\ UNCHANGED result
       ELSE Return(p, ReviewSuccess(reviews'[call[p].id]))
    /\ UNCHANGED <<clients, adminActions, reviews0, rateVars, call, aiVars, configVars>>

-----------------------------------------------------------------------------
(* ReviewService.flagReview.  The call action is the first review.update,
   which increments in the store and returns the row as updated. *)

FlagReview(p, id, flaggedBy) ==
    /\ call' = [call EXCEPT ![p] =
                   [op |-> "flagReview", id |-> id, flaggedBy |-> flaggedBy,
                    \* history: the stored flaggedCount when the call was made
                    countBefore |-> IF id \in DOMAIN reviews
                                    THEN reviews[id].flaggedCount ELSE 0]]
    /\ IF id \notin DOMAIN reviews
       THEN \* review.update throws on a missing row; the catch returns the error
            Return(p, Failure("RecordNotFound")) /\ UNCHANGED reviews
       ELSE /\ reviews' = [reviews EXCEPT ![id] = FlaggedRow(@)]
            /\ local' = [local EXCEPT ![p] = [review |-> reviews'[id]]]
            /\ Goto(p, "flag_audit")
            /\ result' = [result EXCEPT ![p] = NoResult]
    /\ UNCHANGED <<clients, adminActions, reviews0, rateVars, aiVars, configVars>>

FlagAudit(p) ==
    /\ pc[p] = "flag_audit"
    /\ adminActions' = adminActions \cup
           {AuditRow(call[p].flaggedBy, call[p].id, "flag",
                     local[p].review.flaggedCount + 1)}
    /\ IF ShouldAutoHide(local[p].review)
       THEN Goto(p, "flag_hide") /\ UNCHANGED <<result, local>>
       ELSE Return(p, ReviewSuccess(local[p].review))
    /\ UNCHANGED <<reviews, clients, reviews0, rateVars, call, aiVars, configVars>>

FlagHide(p) ==
    /\ pc[p] = "flag_hide"
    /\ reviews' = [reviews EXCEPT ![call[p].id].status = "HIDDEN"]
    /\ Return(p, ReviewSuccess(local[p].review))
    /\ UNCHANGED <<clients, adminActions, reviews0, rateVars, call, aiVars, configVars>>

-----------------------------------------------------------------------------
(* ReviewService.deleteReview.  The call action is findUnique. *)

DeleteReview(p, id, deletedBy) ==
    /\ call' = [call EXCEPT ![p] = [op |-> "deleteReview", id |-> id,
                                    deletedBy |-> deletedBy]]
    /\ IF id \notin DOMAIN reviews
       THEN Return(p, Failure("Review not found"))
       ELSE /\ Goto(p, "del_update")
            /\ local' = [local EXCEPT ![p] = [review |-> reviews[id]]]
            /\ result' = [result EXCEPT ![p] = NoResult]
    /\ UNCHANGED <<reviewVars, rateVars, aiVars, configVars>>

DeleteUpdate(p) ==
    /\ pc[p] = "del_update"
    /\ reviews' = [reviews EXCEPT ![call[p].id].status = "DELETED"]
    /\ Goto(p, "stats_read")
    /\ UNCHANGED <<clients, adminActions, reviews0, rateVars, call, local, result, aiVars, configVars>>

DeleteAudit(p) ==
    /\ pc[p] = "del_audit"
    /\ adminActions' = adminActions \cup
           {AuditRow(call[p].deletedBy, call[p].id, "delete", Undefined)}
    /\ Return(p, [success |-> TRUE, error |-> ""])
    /\ UNCHANGED <<reviews, clients, reviews0, rateVars, call, aiVars, configVars>>

\* the store call a createReview or deleteReview call stands at throws: the
\* call writes nothing more, and the catch of the method returns the error
\* (updateClientStatistics has no catch of its own).  A failure of the
\* first query of a call comes before anything was written.
StoreFails(p) ==
    /\ call[p].op \in {"createReview", "deleteReview"}
    /\ pc[p] \in {"cr_create", "del_update", "stats_read", "stats_write", "del_audit"}
    /\ Return(p, Failure("StoreError"))
    /\ UNCHANGED <<reviewVars, rateVars, call, aiVars, configVars>>

\* the steps of a ReviewService call in flight
ReviewStep(p) ==
    \/ CreateInsert(p)
    \/ StatsAggregate(p)
    \/ StatsWrite(p)
    \/ UpdateWrite(p)
    \/ FlagAudit(p)
    \/ FlagHide(p)
    \/ DeleteUpdate(p)
    \/ DeleteAudit(p)

-----------------------------------------------------------------------------
(* RateLimitService: pure parts and queries *)

\* a getRateLimitConfig that ignores the limits of the request
GetRateLimitConfig_TableOnly(actionType, maxAttempts, windowMinutes) ==
    IF DEFAULT_RATE_LIMITS(actionType) # Null
    THEN DEFAULT_RATE_LIMITS(actionType)[1]
    ELSE [maxAttempts |-> 100, windowMinutes |-> 60]

\* getRateLimitConfig: the request's limits when both are given (truthy),
\* else the table's entry, else { maxAttempts: 100, windowMinutes: 60 }
GetRateLimitConfig(actionType, maxAttempts, windowMinutes) ==
    IF maxAttempts # Undefined /\ windowMinutes # Undefined
    THEN [maxAttempts |-> maxAttempts, windowMinutes |-> windowMinutes]
    ELSE IF DEFAULT_RATE_LIMITS(actionType) # Null
    THEN DEFAULT_RATE_LIMITS(actionType)[1]
    ELSE [maxAttempts |-> 100, windowMinutes |-> 60]

\* getIdentifier: user:<id>, telegram:<id>, or null
GetIdentifier_Anonymous(userId, telegramId) ==
    IF userId # Undefined THEN <<"user", userId>> ELSE <<"telegram", telegramId>>

GetIdentifier(userId, telegramId) ==
    IF userId # Undefined THEN <<"user", userId>>
    ELSE IF telegramId # Undefined THEN <<"telegram", telegramId>>
    ELSE Null

\* a where clause of findFirst without the windowStart condition
MatchingLimitIds_AnyWindow(rows, req, windowStart) ==
    {i \in DOMAIN rows :
        /\ IF req.userId # Undefined THEN rows[i].userId = req.userId
                                     ELSE rows[i].telegramId = req.telegramId
        /\ rows[i].actionType = req.actionType}

\* the where clause of findFirst:
\* { userId | telegramId, actionType, windowStart: { gte: windowStart } }
MatchingLimitIds(rows, req, windowStart) ==
    {i \in DOMAIN rows :
        /\ IF req.userId # Undefined THEN rows[i].userId = req.userId
                                     ELSE rows[i].telegramId = req.telegramId
        /\ rows[i].actionType = req.actionType
        /\ rows[i].windowStart >= windowStart}

\* orderBy: { windowStart: "desc" }: the rows findFirst may return
FindLimitIds(rows, req, windowStart) ==
    LET ids == MatchingLimitIds(rows, req, windowStart)
    IN {i \in ids : \A j \in ids : rows[j].windowStart <= rows[i].windowStart}

\* an answer that admits every counted call
Allowed_Always(currentCount, config) == currentCount >= 1

\* allowed = currentCount <= config.maxAttempts
Allowed_Below(currentCount, config) == currentCount < config.maxAttempts

Allowed(currentCount, config) == currentCount <= config.maxAttempts

\* remaining = Math.max(0, config.maxAttempts - currentCount)
Remaining(currentCount, config) ==
    IF config.maxAttempts - currentCount > 0
    THEN config.maxAttempts - currentCount ELSE 0

\* { success: true, data: { allowed, remaining, resetTime, totalAttempts } }
CheckSuccess_WindowEnd(currentCount, config, row) ==
    [success |-> TRUE, error |-> "",
     allowed |-> Allowed(currentCount, config),
     remaining |-> Remaining(currentCount, config),
     resetTime |-> row.windowStart + config.windowMinutes,
     totalAttempts |-> currentCount]

CheckSuccess(currentCount, config, row) ==
    [success |-> TRUE, error |-> "",
     allowed |-> Allowed(currentCount, config),
     remaining |-> Remaining(currentCount, config),
     resetTime |-> row.expiresAt,
     totalAttempts |-> currentCount]

\* history: the calls made so far for one (actor, actionType); single says
\* they all used one configuration and began within its window of the first,
\* admitted lists the times of the checkRateLimit calls answered allowed,
\* swept holds the rows cleanupExpiredLimits deleted
NoteAttempt(a, config, t) ==
    IF a.k = 0
    THEN [k |-> 1, first |-> t, config |-> config, single |-> TRUE,
          admitted |-> << >>, swept |-> a.swept]
    ELSE [a EXCEPT !.k = @ + 1,
                   !.single = /\ a.single
                              /\ a.config = config
                              /\ t - a.first <= config.windowMinutes]

\* the (actor, actionType) pair the checkRateLimit call of process p is for
CallPair(p) == <<call[p].identifier, call[p].actionType>>

\* the reading of the clock a checkRateLimit call in flight began with
CallTime(p) == local[p].windowStart + local[p].config.windowMinutes

\* history: checkRateLimit of process p returns check
NoteAnswer(p, check) ==
    [attempts EXCEPT ![CallPair(p)].admitted =
        IF check.allowed THEN Append(@, CallTime(p)) ELSE @]

-----------------------------------------------------------------------------
(* RateLimitService.checkRateLimit.  The call action is the synchronous
   prefix: the configuration, the identifier, Date.now() - window. *)

CheckRateLimit(p, actor, actionType, limits) ==
    LET config == GetRateLimitConfig(actionType, limits[1], limits[2])
        identifier == GetIdentifier(actor.userId, actor.telegramId)
    IN /\ call' = [call EXCEPT ![p] =
                      [op |-> "checkRateLimit", userId |-> actor.userId,
                       telegramId |-> actor.telegramId, actionType |-> actionType,
                       identifier |-> identifier]]
       /\ IF identifier = Null
          THEN /\ Return(p, Failure("ValidationError"))
               /\ UNCHANGED attempts
          ELSE /\ local' = [local EXCEPT ![p] =
                               [config |-> config,
                                windowStart |-> now - config.windowMinutes]]
               /\ attempts' = [attempts EXCEPT ![<<identifier, actionType>>] =
                                  NoteAttempt(@, config, now)]
               /\ Goto(p, "rl_find")
               /\ result' = [result EXCEPT ![p] = NoResult]
       /\ UNCHANGED <<reviewVars, rateLimits, now, aiVars, configVars>>

\* findFirst, and the branch on its answer
RateFind(p) ==
    /\ pc[p] = "rl_find"
    /\ LET ids == FindLimitIds(rateLimits, call[p], local[p].windowStart)
       IN IF ids = {}
          THEN Goto(p, "rl_create") /\ UNCHANGED local
          ELSE \E i \in ids :
                  /\ local' = [local EXCEPT ![p] =
                                  [config |-> local[p].config,
                                   windowStart |-> local[p].windowStart,
                                   existingId |-> i,
                                   existingCount |-> rateLimits[i].count]]
                  /\ Goto(p, "rl_update")
    /\ UNCHANGED <<reviewVars, rateVars, call, result, aiVars, configVars>>

\* rateLimit.update({ where: { id }, data: { count: existingLimit.count + 1,
\*                    expiresAt: Date.now() + window } })
RateUpdate(p) ==
    /\ pc[p] = "rl_update"
    /\ LET currentCount == local[p].existingCount + 1
           i == local[p].existingId
       IN /\ rateLimits' = [rateLimits EXCEPT
                               ![i].count = currentCount,
                               ![i].expiresAt = now + local[p].config.windowMinutes]
          /\ Return(p, CheckSuccess(currentCount, local[p].config, rateLimits'[i]))
          /\ attempts' = NoteAnswer(p, CheckSuccess(currentCount, local[p].config,
                                                    rateLimits'[i]))
    /\ UNCHANGED <<reviewVars, now, call, aiVars, configVars>>

\* rateLimit.create({ data: { ..., count: 1, windowStart: new Date(),
\*                    expiresAt: Date.now() + window } })
RateCreate(p) ==
    /\ pc[p] = "rl_create"
    /\ LET row == [userId |-> call[p].userId, telegramId |-> call[p].telegramId,
                   actionType |-> call[p].actionType, count |-> 1,
                   windowStart |-> now,
                   expiresAt |-> now + local[p].config.windowMinutes]
       IN /\ rateLimits' = Append(rateLimits, row)
          /\ Return(p, CheckSuccess(1, local[p].config, row))
          /\ attempts' = NoteAnswer(p, CheckSuccess(1, local[p].config, row))
    /\ UNCHANGED <<reviewVars, now, call, aiVars, configVars>>

\* the steps of a RateLimitService call in flight
RateStep(p) ==
    \/ RateFind(p)
    \/ RateUpdate(p)
    \/ RateCreate(p)

-----------------------------------------------------------------------------
(* RateLimitService.getRateLimitStatus: the synchronous prefix, then one
   findFirst and the return.  The configuration is the one of the action
   type; the method takes no per-request limits. *)

\* { allowed: true, remaining: maxAttempts, resetTime: now + window, totalAttempts: 0 }
StatusOfNoLimit(config, t) ==
    [success |-> TRUE, error |-> "",
     allowed |-> TRUE,
     remaining |-> config.maxAttempts,
     resetTime |-> t + config.windowMinutes,
     totalAttempts |-> 0]

GetRateLimitStatus(p, actor, actionType) ==
    LET config == GetRateLimitConfig(actionType, Undefined, Undefined)
    IN /\ call' = [call EXCEPT ![p] =
                      [op |-> "getRateLimitStatus", userId |-> actor.userId,
                       telegramId |-> actor.telegramId, actionType |-> actionType,
                       identifier |-> GetIdentifier(actor.userId, actor.telegramId)]]
       /\ IF actor.userId = Undefined /\ actor.telegramId = Undefined
          THEN Return(p, Failure("ValidationError"))
          ELSE /\ local' = [local EXCEPT ![p] =
                               [config |-> config,
                                windowStart |-> now - config.windowMinutes]]
               /\ Goto(p, "st_find")
               /\ result' = [result EXCEPT ![p] = NoResult]
       /\ UNCHANGED <<reviewVars, rateVars, aiVars, configVars>>

\* findFirst, and the answer computed from the row it returns
StatusFind(p) ==
    /\ pc[p] = "st_find"
    /\ LET ids == FindLimitIds(rateLimits, call[p], local[p].windowStart)
       IN IF ids = {}
          THEN Return(p, StatusOfNoLimit(local[p].config, now))
          ELSE \E i \in ids :
                  Return(p, CheckSuccess(rateLimits[i].count, local[p].config,
                                         rateLimits[i]))
    /\ UNCHANGED <<reviewVars, rateVars, call, aiVars, configVars>>

-----------------------------------------------------------------------------
(* RateLimitService.cleanupExpiredLimits: one deleteMany, then the return.
   The rows that stay are renumbered; the caller is the only process, so no
   call in flight holds the id of a row. *)

\* where: { expiresAt: { lt: new Date() } }
Expired(row, t) == row.expiresAt < t

\* history: the rows of one (actor, actionType) among the deleted ones
NoteSwept(a, pair, rows) ==
    [a EXCEPT !.swept = @ \cup
        {row \in rows : /\ GetIdentifier(row.userId, row.telegramId) = pair[1]
                        /\ row.actionType = pair[2]}]

CleanupExpiredLimits(p) ==
    LET deleted == {rateLimits[i] : i \in {j \in DOMAIN rateLimits :
                                              Expired(rateLimits[j], now)}}
        count == Cardinality({j \in DOMAIN rateLimits : Expired(rateLimits[j], now)})
    IN /\ call' = [call EXCEPT ![p] = [op |-> "cleanupExpiredLimits"]]
       /\ rateLimits' = SelectSeq(rateLimits, LAMBDA row : ~Expired(row, now))
       /\ attempts' = [pair \in DOMAIN attempts |->
                          NoteSwept(attempts[pair], pair, deleted)]
       /\ Return(p, [success |-> TRUE, error |-> "", data |-> count])
       /\ UNCHANGED <<reviewVars, now, aiVars, configVars>>

-----------------------------------------------------------------------------
(* RateLimitService.checkMultipleActions: the loop over the requests, each
   iteration awaiting checkRateLimit(request).  The call record keeps the
   list; the local variables are the results so far, the index of the
   request being checked and the locals of that checkRateLimit. *)

\* the requests a list is made of: two actors with one attempt per minute,
\* and a request without identity
RequestInputs ==
    {[userId |-> 1, telegramId |-> Undefined, actionType |-> "password_reset",
      maxAttempts |-> 1, windowMinutes |-> 1],
     [userId |-> Undefined, telegramId |-> 7, actionType |-> "password_reset",
      maxAttempts |-> 1, windowMinutes |-> 1],
     [userId |-> Undefined, telegramId |-> Undefined, actionType |-> "password_reset",
      maxAttempts |-> 1, windowMinutes |-> 1]}

\* the lists of at most MaxRequests requests
RequestLists == UNION {[1..n -> RequestInputs] : n \in 0..MaxRequests}

\* result.data of a successful checkRateLimit
CheckData(check) ==
    [allowed |-> check.allowed, remaining |-> check.remaining,
     resetTime |-> check.resetTime, totalAttempts |-> check.totalAttempts]

\* { success: true, data: results }
MultiSuccess(results) == [success |-> TRUE, error |-> "", results |-> results]

\* the loop ends after request index: it was denied (break), or it was the last
StopAfter_ListEnd(check, index, requests) == index = Len(requests)

StopAfter(check, index, requests) == ~check.allowed \/ index = Len(requests)

\* checkRateLimit(requests[k]) up to its first await; a request without
\* identity makes it return a failure, which checkMultipleActions returns
StartCheck(p, requests, k, results) ==
    LET req == requests[k]
        config == GetRateLimitConfig(req.actionType, req.maxAttempts, req.windowMinutes)
        identifier == GetIdentifier(req.userId, req.telegramId)
    IN IF identifier = Null
       THEN Return(p, Failure("ValidationError")) /\ UNCHANGED attempts
       ELSE /\ local' = [local EXCEPT ![p] =
                            [results |-> results, index |-> k, config |-> config,
                             windowStart |-> now - config.windowMinutes]]
            /\ attempts' = [attempts EXCEPT ![<<identifier, req.actionType>>] =
                               NoteAttempt(@, config, now)]
            /\ result' = [result EXCEPT ![p] = NoResult]
            /\ Goto(p, "ml_find")

CheckMultipleActions(p, requests) ==
    /\ call' = [call EXCEPT ![p] =
                   [op |-> "checkMultipleActions", requests |-> requests,
                    \* history: the table when the call was made
                    before |-> rateLimits]]
    /\ IF requests = << >>
       THEN Return(p, MultiSuccess(<< >>)) /\ UNCHANGED attempts
       ELSE StartCheck(p, requests, 1, << >>)
    /\ UNCHANGED <<reviewVars, rateLimits, now, aiVars, configVars>>

\* findFirst of the request being checked, and the branch on its answer
MultiFind(p) ==
    /\ pc[p] = "ml_find"
    /\ LET req == call[p].requests[local[p].index]
           ids == FindLimitIds(rateLimits, req, local[p].windowStart)
       IN IF ids = {}
          THEN Goto(p, "ml_create") /\ UNCHANGED local
          ELSE \E i \in ids :
                  /\ local' = [local EXCEPT ![p] =
                                  [results |-> local[p].results,
                                   index |-> local[p].index,
                                   config |-> local[p].config,
                                   windowStart |-> local[p].windowStart,
                                   existingId |-> i,
                                   existingCount |-> rateLimits[i].count]]
                  /\ Goto(p, "ml_update")
    /\ UNCHANGED <<reviewVars, rateVars, aiVars, configVars, call, result>>

\* checkRateLimit returns check; results.push, the break, the next iteration
ContinueLoop(p, check) ==
    LET results == Append(local[p].results, CheckData(check))
    IN IF StopAfter(check, local[p].index, call[p].requests)
       THEN Return(p, MultiSuccess(results)) /\ UNCHANGED attempts
       ELSE StartCheck(p, call[p].requests, local[p].index + 1, results)

MultiUpdate(p) ==
    /\ pc[p] = "ml_update"
    /\ LET currentCount == local[p].existingCount + 1
           i == local[p].existingId
       IN /\ rateLimits' = [rateLimits EXCEPT
                               ![i].count = currentCount,
                               ![i].expiresAt = now + local[p].config.windowMinutes]
          /\ ContinueLoop(p, CheckSuccess(currentCount, local[p].config, rateLimits'[i]))
    /\ UNCHANGED <<reviewVars, now, aiVars, configVars, call>>

MultiCreate(p) ==
    /\ pc[p] = "ml_create"
    /\ LET req == call[p].requests[local[p].index]
           row == [userId |-> req.userId, telegramId |-> req.telegramId,
                   actionType |-> req.actionType, count |-> 1,
                   windowStart |-> now,
                   expiresAt |-> now + local[p].config.windowMinutes]
       IN /\ rateLimits' = Append(rateLimits, row)
          /\ ContinueLoop(p, CheckSuccess(1, local[p].config, row))
    /\ UNCHANGED <<reviewVars, now, aiVars, configVars, call>>

\* the steps of a checkMultipleActions call in flight
MultiStep(p) ==
    \/ MultiFind(p)
    \/ MultiUpdate(p)
    \/ MultiCreate(p)

\* a minute passes
Tick ==
    /\ now < MaxTime
    /\ now' = now + 1
    /\ UNCHANGED <<reviewVars, rateLimits, attempts, pc, call, local, result, aiVars, configVars>>

-----------------------------------------------------------------------------
(* AiAnalysisService.createAnalysis and updateClientAiScore.  A row of
   ai_analyses keeps the client it is attached to (Undefined when it is
   attached to a photo only), its type and resultData.overallScore; rows are
   kept in the order of createdAt, which is the order of insertion. *)

\* take: 5
LATEST_ASSESSMENTS == 5

\* what an analysis is attached to: a client, a photo only, nothing
ClientTarget == [clientProfileId |-> 1, photoId |-> Undefined]
PhotoTarget == [clientProfileId |-> Undefined, photoId |-> 4]
NoTarget == [clientProfileId |-> Undefined, photoId |-> Undefined]

\* the requests <<target, analysisType, overallScore>>: for the client safety
\* assessments with a low, a high and an out-of-range score and a text
\* sentiment (its resultData has no overallScore); a safety assessment of a
\* photo; a safety assessment of nothing
AnalysisInputs == {<<ClientTarget, "SAFETY_ASSESSMENT", 1>>,
                   <<ClientTarget, "SAFETY_ASSESSMENT", 9>>,
                   <<ClientTarget, "SAFETY_ASSESSMENT", 11>>,
                   <<ClientTarget, "TEXT_SENTIMENT", Undefined>>,
                   <<PhotoTarget, "SAFETY_ASSESSMENT", 9>>,
                   <<NoTarget, "SAFETY_ASSESSMENT", 1>>}

\* validateSafetyAssessmentResult: 0 <= overallScore <= 10; the results of
\* the other types carry no overallScore
ValidResultData(analysisType, overallScore) ==
    analysisType = "SAFETY_ASSESSMENT" => overallScore \in 0..10

\* where: { clientProfileId, analysisType: "SAFETY_ASSESSMENT" }
SafetyAssessmentIds(rows, c) ==
    {i \in DOMAIN rows : /\ rows[i].clientProfileId = c
                         /\ rows[i].analysisType = "SAFETY_ASSESSMENT"}

\* orderBy: { createdAt: "desc" }, take: 5
LatestAssessments_All(rows, c) == SafetyAssessmentIds(rows, c)

LatestAssessments(rows, c) ==
    LET ids == SafetyAssessmentIds(rows, c)
    IN {i \in ids : Cardinality({j \in ids : j > i}) < LATEST_ASSESSMENTS}

RECURSIVE SumScores(_, _)
SumScores(rows, ids) ==
    IF ids = {} THEN 0
    ELSE LET i == CHOOSE x \in ids : TRUE
         IN rows[i].overallScore + SumScores(rows, ids \ {i})

\* scores.reduce((sum, score) => sum + score, 0) / scores.length
AverageScore(rows, ids) == Fraction(SumScores(rows, ids), Cardinality(ids))

\* data: { aiSafetyScore: averageScore }
AiScoreUpdate(row, averageScore) == [row EXCEPT !.aiSafetyScore = averageScore]

\* { success: true, data: analysis }
AnalysisSuccess(row) == [success |-> TRUE, error |-> "", analysis |-> row]

(* The call action is the validation and aiAnalysis.create *)
CreateAnalysis(p, target, analysisType, overallScore) ==
    LET row == [clientProfileId |-> target.clientProfileId,
                analysisType |-> analysisType, overallScore |-> overallScore]
    IN /\ call' = [call EXCEPT ![p] =
                      [op |-> "createAnalysis",
                       clientProfileId |-> target.clientProfileId,
                       photoId |-> target.photoId,
                       analysisType |-> analysisType,
                       overallScore |-> overallScore]]
       /\ IF target.clientProfileId = Undefined /\ target.photoId = Undefined
          THEN Return(p, Failure("ValidationError")) /\ UNCHANGED analyses
          ELSE IF ~ValidResultData(analysisType, overallScore)
          THEN Return(p, Failure("ValidationError")) /\ UNCHANGED analyses
          ELSE /\ analyses' = Append(analyses, row)
               /\ IF /\ analysisType = "SAFETY_ASSESSMENT"
                     /\ target.clientProfileId # Undefined
                  THEN /\ Goto(p, "ai_read")
                       /\ local' = [local EXCEPT ![p] = [analysis |-> row]]
                       /\ result' = [result EXCEPT ![p] = NoResult]
                  ELSE Return(p, AnalysisSuccess(row))
       /\ UNCHANGED <<reviewVars, rateVars, configVars>>

\* updateClientAiScore: findMany, and the test of latestAssessments.length
AiScoreRead(p) ==
    /\ pc[p] = "ai_read"
    /\ LET ids == LatestAssessments(analyses, call[p].clientProfileId)
       IN IF ids = {}
          THEN Return(p, AnalysisSuccess(local[p].analysis))
          ELSE /\ local' = [local EXCEPT ![p] =
                               [analysis |-> local[p].analysis,
                                averageScore |-> AverageScore(analyses, ids)]]
               /\ Goto(p, "ai_write")
               /\ UNCHANGED result
    /\ UNCHANGED <<reviewVars, rateVars, aiVars, configVars, call>>

\* updateClientAiScore: clientProfile.update
AiScoreWrite(p) ==
    /\ pc[p] = "ai_write"
    /\ clients' = [clients EXCEPT ![call[p].clientProfileId] =
                      AiScoreUpdate(@, local[p].averageScore)]
    /\ Return(p, AnalysisSuccess(local[p].analysis))
    /\ UNCHANGED <<reviews, adminActions, reviews0, rateVars, aiVars, configVars, call>>

\* the steps of an AiAnalysisService call in flight
AiStep(p) ==
    \/ AiScoreRead(p)
    \/ AiScoreWrite(p)

-----------------------------------------------------------------------------
(* BotConfigService.  A JavaScript value of a configuration is a record:
   a finite number, NaN, null or undefined.  The table bot_configurations
   keeps per key the JSON text that JSON.stringify made of the value; the
   instance keeps configCache and cacheExpiry. *)

Num(n) == [type |-> "number", nan |-> FALSE, n |-> n]
NaN == [type |-> "number", nan |-> TRUE, n |-> 0]
JsNull == [type |-> "null", nan |-> FALSE, n |-> 0]
JsUndefined == [type |-> "undefined", nan |-> FALSE, n |-> 0]

\* no row of the table, no entry of the cache
NoRow == [json |-> "none", n |-> 0]
NoEntry == [type |-> "absent", nan |-> FALSE, n |-> 0]

\* keys of configurations: one of DEFAULT_CONFIGS and CONFIG_VALIDATIONS,
\* and one that neither names
ConfigKeys == {"bot.max_search_results", "custom.key"}

\* DEFAULT_CONFIGS[key].value, or Null when there is no such key
DEFAULT_CONFIGS(key) ==
    CASE key = "bot.max_search_results" -> <<Num(10)>>
      [] OTHER -> Null

\* CONFIG_VALIDATIONS[key], or Null when there is no such key
CONFIG_VALIDATIONS(key) ==
    CASE key = "bot.max_search_results" -> <<[type |-> "number", min |-> 1, max |-> 100]>>
      [] OTHER -> Null

\* JSON.stringify(value): a finite number gives its literal, NaN and null
\* give the text null
JsonStringify(value) ==
    IF value.type = "number" /\ ~value.nan
    THEN [json |-> "number", n |-> value.n]
    ELSE [json |-> "null", n |-> 0]

\* JSON.parse(text)
JsonParse(text) ==
    IF text.json = "number" THEN Num(text.n) ELSE JsNull

\* value < bound and value > bound of JavaScript: false when value is NaN
JsLess(value, bound) == ~value.nan /\ value.n < bound
JsGreater(value, bound) == ~value.nan /\ value.n > bound

\* validateConfig(key, value).valid; no key of the model is required
ValidateConfig(key, value) ==
    IF CONFIG_VALIDATIONS(key) = Null THEN TRUE
    ELSE LET validation == CONFIG_VALIDATIONS(key)[1]
         IN value.type \notin {"null", "undefined"} =>
               /\ value.type = validation.type
               /\ validation.type = "number" =>
                     /\ ~JsLess(value, validation.min)
                     /\ ~JsGreater(value, validation.max)

\* isValidCacheEntry(key)
IsValidCacheEntry(key) ==
    /\ cacheExpiry[key] # Undefined
    /\ now < cacheExpiry[key]
    /\ configCache[key] # NoEntry

\* setCacheEntry(key, value)
SetCacheEntry(key, value) ==
    /\ configCache' = [configCache EXCEPT ![key] = value]
    /\ cacheExpiry' = [cacheExpiry EXCEPT ![key] = now + CACHE_TTL]

ConfigSuccess(data) == [success |-> TRUE, error |-> "", data |-> data]

\* getConfig(key, useCache): the cache, else findUnique and the default.
\* The call record keeps how the answer was made: from the cache, and how
\* long before the call the entry served had been written
GetConfig(p, key, useCache) ==
    /\ IF useCache /\ IsValidCacheEntry(key)
       THEN /\ call' = [call EXCEPT ![p] =
                           [op |-> "getConfig", key |-> key, useCache |-> useCache,
                            cached |-> TRUE,
                            age |-> now - (cacheExpiry[key] - CACHE_TTL)]]
            /\ Return(p, ConfigSuccess(configCache[key]))
            /\ UNCHANGED <<configCache, cacheExpiry>>
       ELSE /\ call' = [call EXCEPT ![p] =
                           [op |-> "getConfig", key |-> key, useCache |-> useCache,
                            cached |-> FALSE, age |-> 0]]
            /\ IF botConfigs[key] = NoRow
               THEN IF DEFAULT_CONFIGS(key) # Null
                    THEN /\ SetCacheEntry(key, DEFAULT_CONFIGS(key)[1])
                         /\ Return(p, ConfigSuccess(DEFAULT_CONFIGS(key)[1]))
                    ELSE /\ Return(p, ConfigSuccess(JsNull))
                         /\ UNCHANGED <<configCache, cacheExpiry>>
               ELSE /\ SetCacheEntry(key, JsonParse(botConfigs[key]))
                    /\ Return(p, ConfigSuccess(JsonParse(botConfigs[key])))
    /\ UNCHANGED <<reviewVars, rateVars, aiVars, botConfigs>>

\* the body of setConfig: validateConfig, upsert, setCacheEntry; the answer
\* is whether it succeeded
SetConfigBody(key, value) ==
    IF ValidateConfig(key, value)
    THEN /\ botConfigs' = [botConfigs EXCEPT ![key] = JsonStringify(value)]
         /\ SetCacheEntry(key, value)
    ELSE UNCHANGED configVars

SetConfig(p, key, value) ==
    /\ call' = [call EXCEPT ![p] = [op |-> "setConfig", key |-> key, value |-> value]]
    /\ SetConfigBody(key, value)
    /\ IF ValidateConfig(key, value)
       THEN Return(p, ConfigSuccess(JsonStringify(value)))
       ELSE Return(p, Failure("ValidationError"))
    /\ UNCHANGED <<reviewVars, rateVars, aiVars>>

\* updateConfig(key, request): findUnique, the validation of a given value
UpdateConfig(p, key, value) ==
    /\ call' = [call EXCEPT ![p] = [op |-> "updateConfig", key |-> key, value |-> value]]
    /\ IF botConfigs[key] = NoRow
       THEN Return(p, Failure("Configuration not found"))
       ELSE IF value # JsUndefined /\ ~ValidateConfig(key, value)
       THEN Return(p, Failure("ValidationError"))
       ELSE /\ Goto(p, "uc_update")
            /\ result' = [result EXCEPT ![p] = NoResult]
            /\ UNCHANGED local
    /\ UNCHANGED <<reviewVars, rateVars, aiVars, configVars>>

\* updateConfig: botConfiguration.update, the cache when a value was given
UpdateConfigWrite(p) ==
    /\ pc[p] = "uc_update"
    /\ IF call[p].value # JsUndefined
       THEN /\ botConfigs' = [botConfigs EXCEPT ![call[p].key] =
                                 JsonStringify(call[p].value)]
            /\ SetCacheEntry(call[p].key, call[p].value)
       ELSE UNCHANGED configVars
    /\ Return(p, ConfigSuccess(botConfigs'[call[p].key]))
    /\ UNCHANGED <<reviewVars, rateVars, aiVars, call>>

\* deleteConfig(key): botConfiguration.delete throws when there is no row
DeleteConfig(p, key) ==
    /\ call' = [call EXCEPT ![p] = [op |-> "deleteConfig", key |-> key]]
    /\ IF botConfigs[key] = NoRow
       THEN Return(p, Failure("RecordNotFound")) /\ UNCHANGED configVars
       ELSE /\ botConfigs' = [botConfigs EXCEPT ![key] = NoRow]
            /\ configCache' = [configCache EXCEPT ![key] = NoEntry]
            /\ cacheExpiry' = [cacheExpiry EXCEPT ![key] = Undefined]
            /\ Return(p, ConfigSuccess(JsNull))
    /\ UNCHANGED <<reviewVars, rateVars, aiVars>>

\* bulkUpdate(configs): the loop awaits setConfig for each entry in turn
BulkStep(p, configs, k, updated) ==
    LET key == configs[k][1]
        value == configs[k][2]
        n == IF ValidateConfig(key, value) THEN updated + 1 ELSE updated
    IN /\ SetConfigBody(key, value)
       /\ IF k = Len(configs)
          THEN Return(p, ConfigSuccess(Num(n)))
          ELSE /\ local' = [local EXCEPT ![p] = [index |-> k + 1, updated |-> n]]
               /\ Goto(p, "bu_next")
               /\ result' = [result EXCEPT ![p] = NoResult]

BulkUpdate(p, configs) ==
    /\ call' = [call EXCEPT ![p] = [op |-> "bulkUpdate", configs |-> configs]]
    /\ IF configs = << >>
       THEN Return(p, ConfigSuccess(Num(0))) /\ UNCHANGED configVars
       ELSE BulkStep(p, configs, 1, 0)
    /\ UNCHANGED <<reviewVars, rateVars, aiVars>>

BulkNext(p) ==
    /\ pc[p] = "bu_next"
    /\ BulkStep(p, call[p].configs, local[p].index, local[p].updated)
    /\ UNCHANGED <<reviewVars, rateVars, aiVars, call>>

\* initializeDefaults: for the key of DEFAULT_CONFIGS, findUnique
InitializeDefaults(p) ==
    /\ call' = [call EXCEPT ![p] =
                   [op |-> "initializeDefaults", key |-> "bot.max_search_results"]]
    /\ IF botConfigs["bot.max_search_results"] = NoRow
       THEN /\ Goto(p, "id_create")
            /\ result' = [result EXCEPT ![p] = NoResult]
            /\ UNCHANGED local
       ELSE Return(p, ConfigSuccess(Num(0)))
    /\ UNCHANGED <<reviewVars, rateVars, aiVars, configVars>>

\* initializeDefaults: botConfiguration.create of the default, the return
InitializeDefaultsCreate(p) ==
    /\ pc[p] = "id_create"
    /\ botConfigs' = [botConfigs EXCEPT ![call[p].key] =
                         JsonStringify(DEFAULT_CONFIGS(call[p].key)[1])]
    /\ Return(p, ConfigSuccess(Num(1)))
    /\ UNCHANGED <<reviewVars, rateVars, aiVars, configCache, cacheExpiry, call>>

\* a minute passes on the clock of the configuration service
ConfigTick ==
    /\ now < MaxConfigTime
    /\ now' = now + 1
    /\ UNCHANGED <<reviewVars, rateLimits, attempts, pc, call, local, result,
                   aiVars, configVars>>

-----------------------------------------------------------------------------
(* ClientService.updateClient and deleteClient.  A request is a record that
   holds the keys the caller passed; a client_profiles row keeps its status
   and its derived fields (the names, the phone number, the risk level and
   the timestamps are left out). *)

\* the keys of UpdateClientSchema that the rows of the model keep
UpdateClientKeys == {"status", "aiSafetyScore"}

\* UpdateClientSchema.parse succeeds: aiSafetyScore, when given, is a number
\* from MIN_AI_SCORE to MAX_AI_SCORE
ValidUpdateClient(request) ==
    "aiSafetyScore" \in DOMAIN request =>
        /\ request.aiSafetyScore[1] >= MIN_AI_SCORE * request.aiSafetyScore[2]
        /\ request.aiSafetyScore[1] <= MAX_AI_SCORE * request.aiSafetyScore[2]

\* validData: z.object strips the keys the schema does not name
ParseUpdateClient(request) ==
    [f \in DOMAIN request \cap UpdateClientKeys |-> request[f]]

\* clientProfile.update({ where: { id }, data: { ...validData, updatedAt } })
ClientUpdate(row, validData) ==
    [f \in DOMAIN row |-> IF f \in DOMAIN validData THEN validData[f] ELSE row[f]]

\* updateClient: the parse, then one update and the return
UpdateClient(p, id, request, updatedBy) ==
    /\ call' = [call EXCEPT ![p] =
                   [op |-> "updateClient", id |-> id, request |-> request]]
    /\ IF ~ValidUpdateClient(request)
       THEN Return(p, Failure("ZodError")) /\ UNCHANGED clients
       ELSE IF id \notin DOMAIN clients
       THEN Return(p, Failure("RecordNotFound")) /\ UNCHANGED clients
       ELSE /\ clients' = [clients EXCEPT ![id] =
                               ClientUpdate(@, ParseUpdateClient(request))]
            /\ Return(p, [success |-> TRUE, error |-> "", data |-> clients'[id]])
    /\ UNCHANGED <<reviews, adminActions, reviews0, rateVars, aiVars, configVars>>

\* deleteClient: clientProfile.update({ data: { status: "BLACKLISTED" } })
DeleteClient(p, id, deletedBy) ==
    /\ call' = [call EXCEPT ![p] =
                   [op |-> "deleteClient", id |-> id, deletedBy |-> deletedBy]]
    /\ IF id \notin DOMAIN clients
       THEN Return(p, Failure("RecordNotFound")) /\ UNCHANGED clients
       ELSE /\ clients' = [clients EXCEPT ![id].status = "BLACKLISTED"]
            /\ Goto(p, "dc_audit")
            /\ result' = [result EXCEPT ![p] = NoResult]
            /\ UNCHANGED local
    /\ UNCHANGED <<reviews, adminActions, reviews0, rateVars, aiVars, configVars>>

\* adminAction.create({ actionType: "CLIENT_STATUS_CHANGE", ... }), the return
DeleteClientAudit(p) ==
    /\ pc[p] = "dc_audit"
    /\ adminActions' = adminActions \cup
          {[adminId |-> call[p].deletedBy, targetId |-> call[p].id,
            action |-> "soft_delete", newStatus |-> "BLACKLISTED"]}
    /\ Return(p, [success |-> TRUE, error |-> ""])
    /\ UNCHANGED <<reviews, clients, reviews0, rateVars, aiVars, configVars, call>>

-----------------------------------------------------------------------------
(* The state after construction: empty tables, the client profiles created
   with totalReviews = 0, averageRating = null and aiSafetyScore = null,
   every process idle *)

NewClient == [status |-> "PENDING_VERIFICATION",
              totalReviews |-> 0, averageRating |-> Null, aiSafetyScore |-> Null]

\* the (actor, actionType) pairs a rate-limit call can be for
RatePairs ==
    {<<GetIdentifier(a.userId, a.telegramId), t>> : a \in ActorInputs, t \in ActionTypes}

NoAttempts == [k |-> 0, first |-> 0,
               config |-> [maxAttempts |-> 0, windowMinutes |-> 0], single |-> TRUE,
               admitted |-> << >>, swept |-> {}]

\* an empty table bot_configurations and a new BotConfigService
NoConfigs ==
    /\ botConfigs = [key \in ConfigKeys |-> NoRow]
    /\ configCache = [key \in ConfigKeys |-> NoEntry]
    /\ cacheExpiry = [key \in ConfigKeys |-> Undefined]

InitProcs ==
    /\ pc = [p \in Procs |-> "idle"]
    /\ call = [p \in Procs |-> NoCall]
    /\ local = [p \in Procs |-> NoLocal]
    /\ result = [p \in Procs |-> NoResult]

Init ==
    /\ reviews = << >>
    /\ reviews0 = << >>
    /\ clients = [c \in ClientIds |-> NewClient]
    /\ adminActions = {}
    /\ rateLimits = << >>
    /\ analyses = << >>
    /\ now = 0
    /\ attempts = [pair \in RatePairs |-> NoAttempts]
    /\ NoConfigs
    /\ InitProcs

\* no call of process p is in flight
Ready(p) == pc[p] \in {"idle", "done"}

ReviewIdInputs == 1..MaxReviews

(* ReviewService calls made one at a time by a single caller *)
ReviewCall(p) ==
    \/ \E c \in ClientIds, rating \in RatingInputs, r \in ReviewerIds :
          /\ Len(reviews) < MaxReviews
          /\ CreateReview(p, c, rating, r)
    \/ \E id \in ReviewIdInputs, rating \in UpdateRatingInputs, u \in CallerIds :
          UpdateReview(p, id, rating, u)
    \/ \E id \in ReviewIdInputs, u \in ModeratorIds :
          /\ TotalFlags(reviews) < MaxFlags
          /\ FlagReview(p, id, u)
    \/ \E id \in ReviewIdInputs, u \in ModeratorIds :
          DeleteReview(p, id, u)

Next ==
    \/ Ready(1) /\ ReviewCall(1)
    \/ ReviewStep(1)

Spec == Init /\ [][Next]_vars

-----------------------------------------------------------------------------
(* RateLimitService calls made one at a time by a single caller, while the
   clock runs *)

RECURSIVE TotalAttempts(_)
TotalAttempts(pairs) ==
    IF pairs = {} THEN 0
    ELSE LET pair == CHOOSE x \in pairs : TRUE
         IN attempts[pair].k + TotalAttempts(pairs \ {pair})

RateCall(p) ==
    \E actor \in ActorInputs, actionType \in ActionTypes, limits \in LimitInputs :
        /\ TotalAttempts(RatePairs) < MaxCalls
        /\ CheckRateLimit(p, actor, actionType, limits)

NextRate ==
    \/ Ready(1) /\ RateCall(1)
    \/ RateStep(1)
    \/ Tick

SpecRate == Init /\ [][NextRate]_vars

-----------------------------------------------------------------------------
(* RateLimitService.checkRateLimit called one at a time, every call with
   the same configuration, while the clock runs *)

\* the configuration of every call: <<maxAttempts, windowMinutes>>
BurstLimits == <<2, 1>>

BurstCall(p) ==
    \E actor \in ActorInputs, actionType \in ActionTypes :
        /\ TotalAttempts(RatePairs) < MaxBurstCalls
        /\ CheckRateLimit(p, actor, actionType, BurstLimits)

NextBurst ==
    \/ Ready(1) /\ BurstCall(1)
    \/ RateStep(1)
    \/ Tick

SpecBurst == Init /\ [][NextBurst]_vars

-----------------------------------------------------------------------------
(* RateLimitService.checkRateLimit called one at a time with every
   per-request configuration, while the clock runs and
   cleanupExpiredLimits is run between the calls at any time *)

NextSweep ==
    \/ Ready(1) /\ RateCall(1)
    \/ Ready(1) /\ CleanupExpiredLimits(1)
    \/ RateStep(1)
    \/ Tick

SpecSweep == Init /\ [][NextSweep]_vars

-----------------------------------------------------------------------------
(* getRateLimitStatus followed at once by checkRateLimit: process 1 makes
   checkRateLimit calls one at a time while the clock runs; then process 2
   asks for the status of an (actor, actionType), and when it has returned
   process 3 makes a checkRateLimit call for the same pair with the
   configuration of the action type *)

NextStatus ==
    \/ pc[2] = "idle" /\ Ready(1) /\ RateCall(1)
    \/ RateStep(1)
    \/ pc[2] = "idle" /\ Tick
    \/ /\ pc[2] = "idle" /\ Ready(1)
       /\ \E actor \in ActorInputs, actionType \in ActionTypes :
             GetRateLimitStatus(2, actor, actionType)
    \/ StatusFind(2)
    \/ /\ pc[2] = "done" /\ pc[3] = "idle"
       /\ CheckRateLimit(3, [userId |-> call[2].userId,
                             telegramId |-> call[2].telegramId],
                         call[2].actionType, <<Undefined, Undefined>>)
    \/ RateStep(3)

SpecStatus == Init /\ [][NextStatus]_vars

-----------------------------------------------------------------------------
(* RateLimitService.checkMultipleActions calls made one at a time by a
   single caller, while the clock runs *)

MultiCall(p) ==
    \E requests \in RequestLists :
        /\ TotalAttempts(RatePairs) < MaxCalls
        /\ CheckMultipleActions(p, requests)

NextMulti ==
    \/ Ready(1) /\ MultiCall(1)
    \/ MultiStep(1)
    \/ Tick

SpecMulti == Init /\ [][NextMulti]_vars

-----------------------------------------------------------------------------
(* AiAnalysisService.createAnalysis calls made one at a time by a single
   caller *)

AiCall(p) ==
    \E input \in AnalysisInputs :
        /\ Len(analyses) < MaxAnalyses
        /\ CreateAnalysis(p, input[1], input[2], input[3])

NextAi ==
    \/ Ready(1) /\ AiCall(1)
    \/ AiStep(1)

SpecAi == Init /\ [][NextAi]_vars

-----------------------------------------------------------------------------
(* Concurrent callers: NumProcs processes, each making one call, their store
   calls interleaved in any order *)

Idle(p) == pc[p] = "idle"

\* no call is in flight
Quiescent == \A p \in Procs : Ready(p)

\* the calls that have returned
Returned(op) == {p \in Procs : pc[p] = "done" /\ call[p].op = op}

(* concurrent flagReview calls on a ledger that holds one review, as
   createReview and k sequential flagReview calls leave it *)
FlagStarts == {<<"ACTIVE", 0>>, <<"FLAGGED", 1>>, <<"FLAGGED", 2>>, <<"HIDDEN", 3>>}

InitFlagConc ==
    /\ \E start \in FlagStarts :
          /\ reviews = <<[NewReview(1, 1, MIN_RATING) EXCEPT
                             !.status = start[1], !.flaggedCount = start[2]]>>
          /\ adminActions = {AuditRow(3, 1, "flag", n + 1) : n \in 1..start[2]}
    /\ reviews0 = reviews
    /\ clients = [c \in ClientIds |->
                     IF c = 1
                     THEN StatsUpdate(NewClient, AggregateActive(<<NewReview(1, 1, MIN_RATING)>>, 1))
                     ELSE NewClient]
    /\ rateLimits = << >>
    /\ analyses = << >>
    /\ now = 0
    /\ attempts = [pair \in RatePairs |-> NoAttempts]
    /\ NoConfigs
    /\ InitProcs

NextFlagConc ==
    \E p \in Procs :
        \/ Idle(p) /\ \E id \in ReviewIdInputs, u \in ModeratorIds : FlagReview(p, id, u)
        \/ FlagAudit(p)
        \/ FlagHide(p)

SpecFlagConc == InitFlagConc /\ [][NextFlagConc]_vars

(* concurrent createReview calls on an empty ledger *)
NextCreateConc ==
    \E p \in Procs :
        \/ Idle(p) /\ \E c \in ClientIds, rating \in RatingInputs, r \in ReviewerIds :
                         CreateReview(p, c, rating, r)
        \/ CreateInsert(p)
        \/ StatsAggregate(p)
        \/ StatsWrite(p)

SpecCreateConc == Init /\ [][NextCreateConc]_vars

(* concurrent checkRateLimit calls on an empty table, all made at the same
   reading of the clock, hence inside one window *)
NextRateConc ==
    \E p \in Procs :
        \/ Idle(p) /\ \E actor \in ActorInputs, actionType \in ActionTypes,
                         limits \in LimitInputs :
                         CheckRateLimit(p, actor, actionType, limits)
        \/ RateStep(p)

SpecRateConc == Init /\ [][NextRateConc]_vars

(* concurrent updateReview calls on a ledger that holds one review, as
   createReview leaves it; the callers are a reviewer, the admin and a user
   id the users table does not hold *)
UpdaterIds == {1, 3, 9}
\* the targets: the review of the ledger and an id no review has
UpdateTargetIds == {1, 2}

InitUpdateConc ==
    /\ \E r \in ReviewerIds : reviews = <<NewReview(1, r, MIN_RATING)>>
    /\ reviews0 = reviews
    /\ clients = [c \in ClientIds |->
                     StatsUpdate(NewClient, AggregateActive(reviews, c))]
    /\ adminActions = {}
    /\ rateLimits = << >>
    /\ analyses = << >>
    /\ now = 0
    /\ attempts = [pair \in RatePairs |-> NoAttempts]
    /\ NoConfigs
    /\ InitProcs

NextUpdateConc ==
    \E p \in Procs :
        \/ Idle(p) /\ \E id \in UpdateTargetIds, rating \in UpdateRatingInputs,
                         u \in UpdaterIds : UpdateReview(p, id, rating, u)
        \/ UpdateWrite(p)
        \/ StatsAggregate(p)
        \/ StatsWrite(p)

SpecUpdateConc == InitUpdateConc /\ [][NextUpdateConc]_vars

(* The two recomputations of a client's derived fields, updateClientStatistics
   and updateClientAiScore, run again and again by a single caller on a
   ledger nobody writes.  The ledger is drawn from bounded sets: up to two
   reviews of different reviewers in any status, no, one or six safety
   assessments; the client row holds what recomputations of an earlier
   ledger of the same sets had written. *)
StatusInputs == {<<"ACTIVE", 0>>, <<"FLAGGED", 1>>, <<"HIDDEN", 3>>, <<"DELETED", 0>>}

ReviewLedgers ==
    LET Row(r, st) == [NewReview(1, r, r) EXCEPT !.status = st[1], !.flaggedCount = st[2]]
    IN {<< >>} \cup {<<Row(1, st)>> : st \in StatusInputs}
               \cup {<<Row(1, st[1]), Row(2, st[2])>> : st \in StatusInputs \X StatusInputs}

AnalysisLedgers ==
    LET Row(score) == [clientProfileId |-> 1, analysisType |-> "SAFETY_ASSESSMENT",
                       overallScore |-> score]
    IN {<< >>, <<Row(9)>>, <<Row(9), Row(1), Row(1), Row(1), Row(1), Row(1)>>}

\* the client row after both recomputations on the ledger (rows, assessments)
RecomputedClient(rows, assessments, c) ==
    LET ids == LatestAssessments(assessments, c)
        row == StatsUpdate(NewClient, AggregateActive(rows, c))
    IN IF ids = {} THEN row ELSE AiScoreUpdate(row, AverageScore(assessments, ids))

InitRecompute ==
    /\ reviews \in ReviewLedgers
    /\ reviews0 = reviews
    /\ analyses \in AnalysisLedgers
    /\ \E rows \in ReviewLedgers, assessments \in AnalysisLedgers :
          clients = [c \in ClientIds |-> RecomputedClient(rows, assessments, c)]
    /\ adminActions = {}
    /\ rateLimits = << >>
    /\ now = 0
    /\ attempts = [pair \in RatePairs |-> NoAttempts]
    /\ NoConfigs
    /\ InitProcs

\* history: the runs of each recomputation made so far by process p
RunsSoFar(p) ==
    IF call[p].op = "none" THEN [statsRuns |-> 0, aiRuns |-> 0]
    ELSE [statsRuns |-> call[p].statsRuns, aiRuns |-> call[p].aiRuns]

\* updateClientStatistics(clientProfileId) called on its own
UpdateClientStatistics(p, c) ==
    /\ RunsSoFar(p).statsRuns < MaxRuns
    /\ call' = [call EXCEPT ![p] =
                   [op |-> "updateClientStatistics", clientProfileId |-> c,
                    statsRuns |-> RunsSoFar(p).statsRuns + 1,
                    aiRuns |-> RunsSoFar(p).aiRuns]]
    /\ local' = [local EXCEPT ![p] = [review |-> [clientProfileId |-> c]]]
    /\ result' = [result EXCEPT ![p] = NoResult]
    /\ Goto(p, "stats_read")
    /\ UNCHANGED <<reviewVars, rateVars, aiVars, configVars>>

\* updateClientAiScore(clientProfileId) called on its own
UpdateClientAiScore(p, c) ==
    /\ RunsSoFar(p).aiRuns < MaxRuns
    /\ call' = [call EXCEPT ![p] =
                   [op |-> "updateClientAiScore", clientProfileId |-> c,
                    statsRuns |-> RunsSoFar(p).statsRuns,
                    aiRuns |-> RunsSoFar(p).aiRuns + 1]]
    /\ local' = [local EXCEPT ![p] = [analysis |-> Null]]
    /\ result' = [result EXCEPT ![p] = NoResult]
    /\ Goto(p, "ai_read")
    /\ UNCHANGED <<reviewVars, rateVars, aiVars, configVars>>

NextRecompute ==
    \/ Ready(1) /\ \E c \in ClientIds : UpdateClientStatistics(1, c)
    \/ Ready(1) /\ \E c \in ClientIds : UpdateClientAiScore(1, c)
    \/ StatsAggregate(1)
    \/ StatsWrite(1)
    \/ AiScoreRead(1)
    \/ AiScoreWrite(1)

SpecRecompute == InitRecompute /\ [][NextRecompute]_vars

(* one createReview or deleteReview call on a ledger of up to two reviews,
   with a store that may fail at any step of the call *)
NextFail ==
    \/ Idle(1) /\ \E c \in ClientIds, rating \in RatingInputs, r \in ReviewerIds :
                     CreateReview(1, c, rating, r)
    \/ Idle(1) /\ \E id \in ReviewIdInputs, u \in ModeratorIds : DeleteReview(1, id, u)
    \/ CreateInsert(1)
    \/ DeleteUpdate(1)
    \/ StatsAggregate(1)
    \/ StatsWrite(1)
    \/ DeleteAudit(1)
    \/ StoreFails(1)

SpecFail == InitRecompute /\ [][NextFail]_vars

(* BotConfigService calls made one at a time on one instance, while the
   clock runs *)

\* values of a request: in range, below the range of the validated key, NaN
ConfigValueInputs == {Num(50), Num(0), NaN}

\* lists of a bulkUpdate call
BulkInputs ==
    {<< >>} \cup
    {<<<<key, Num(50)>>>> : key \in ConfigKeys} \cup
    {<<<<"bot.max_search_results", Num(0)>>, <<"custom.key", JsNull>>>>}

ConfigCall(p) ==
    \/ \E key \in ConfigKeys, useCache \in BOOLEAN : GetConfig(p, key, useCache)
    \/ \E key \in ConfigKeys, value \in ConfigValueInputs : SetConfig(p, key, value)
    \/ \E key \in ConfigKeys, value \in ConfigValueInputs \cup {JsUndefined} :
          UpdateConfig(p, key, value)
    \/ \E key \in ConfigKeys : DeleteConfig(p, key)
    \/ \E configs \in BulkInputs : BulkUpdate(p, configs)
    \/ InitializeDefaults(p)

NextConfig ==
    \/ Ready(1) /\ ConfigCall(1)
    \/ UpdateConfigWrite(1)
    \/ BulkNext(1)
    \/ InitializeDefaultsCreate(1)
    \/ ConfigTick

SpecConfig == Init /\ [][NextConfig]_vars

(* ClientService.updateClient and deleteClient called one at a time on a
   client whose derived fields were computed from a ledger *)

\* the id of the profile and an id no profile has
ClientIdInputs == ClientIds \cup {2}

\* requests of updateClient: a status, a score in range, a score out of
\* range, a status together with a key the schema does not name
UpdateClientInputs ==
    {[status |-> "VERIFIED_SAFE"],
     [aiSafetyScore |-> <<7, 1>>],
     [aiSafetyScore |-> <<MAX_AI_SCORE + 1, 1>>],
     [status |-> "UNDER_REVIEW", totalReviews |-> 9]}

NextClient ==
    \/ Ready(1) /\ \E id \in ClientIdInputs, request \in UpdateClientInputs,
                      u \in ModeratorIds : UpdateClient(1, id, request, u)
    \/ Ready(1) /\ \E id \in ClientIdInputs, u \in ModeratorIds :
                      DeleteClient(1, id, u)
    \/ DeleteClientAudit(1)

SpecClient == InitRecompute /\ [][NextClient]_vars

-----------------------------------------------------------------------------
(* Properties *)

ReviewOps == {"createReview", "updateReview", "flagReview", "deleteReview"}

\* the live (not DELETED) reviews of reviewer r for client c
LiveReviews(c, r) ==
    {i \in DOMAIN reviews : /\ reviews[i].clientProfileId = c
                            /\ reviews[i].reviewerId = r
                            /\ reviews[i].status # "DELETED"}

\* the ACTIVE reviews of client c, and the mean of their ratings
ActiveOf(c) ==
    {i \in DOMAIN reviews : reviews[i].clientProfileId = c /\ reviews[i].status = "ACTIVE"}

MeanRating(c) ==
    IF ActiveOf(c) = {} THEN Null
    ELSE Fraction(SumRatings(reviews, ActiveOf(c)), Cardinality(ActiveOf(c)))

\* process p takes a step that is a call of method op
Calls(p, op) ==
    /\ Ready(p)
    /\ call'[p].op = op
    /\ <<pc[p], call[p], result[p]>> # <<pc'[p], call'[p], result'[p]>>

(* C1: after every successfully completed ReviewService operation, calls run
   one at a time, each client's totalReviews is the number of its ACTIVE
   reviews and its averageRating is their mean rating (null when none). *)
C1_StatsMatchLedger ==
    \A p \in Procs :
        (pc[p] = "done" /\ call[p].op \in ReviewOps /\ result[p].success) =>
            \A c \in ClientIds :
                /\ clients[c].totalReviews = Cardinality(ActiveOf(c))
                /\ clients[c].averageRating = MeanRating(c)

(* C2: with calls run one at a time, each (clientProfileId, reviewerId) pair
   has at most one review whose status is not DELETED. *)
C2_OneLiveReviewPerPair ==
    \A c \in ClientIds, r \in ReviewerIds : Cardinality(LiveReviews(c, r)) <= 1

(* C6: once a review's status is DELETED, no step of any ReviewService
   operation changes it to anything else. *)
C6_DeletedIsTerminal ==
    [][\A i \in DOMAIN reviews :
          reviews[i].status = "DELETED" => reviews'[i].status = "DELETED"]_vars

(* C7: a flagReview call run on its own raises the stored flaggedCount by
   exactly 1 and leaves the status FLAGGED while the new count is below
   AUTO_HIDE_FLAG_THRESHOLD and HIDDEN once it is 3 or more. *)
C7_FlagCountsAndHides ==
    \A p \in Returned("flagReview") :
        result[p].success =>
            LET row == reviews[call[p].id]
            IN /\ row.flaggedCount = call[p].countBefore + 1
               /\ row.status = IF row.flaggedCount >= 3 THEN "HIDDEN" ELSE "FLAGGED"

\* the third flag of a review has returned and the review is HIDDEN
C7_Witness ==
    \E p \in Returned("flagReview") :
        /\ result[p].success
        /\ call[p].countBefore = 2
        /\ reviews[call[p].id].flaggedCount = 3
        /\ reviews[call[p].id].status = "HIDDEN"

\* the concurrent flagReview calls on review id that have returned
FlagsOn(id) == {p \in Returned("flagReview") : call[p].id = id}

(* C8: once n concurrent flagReview calls on a live review have all
   completed, its flaggedCount has grown by exactly n, and for n >= 3 its
   status is HIDDEN. *)
C8_ConcurrentFlagsHide ==
    Quiescent =>
        \A id \in DOMAIN reviews :
            /\ reviews[id].flaggedCount =
                   reviews0[id].flaggedCount + Cardinality(FlagsOn(id))
            /\ Cardinality(FlagsOn(id)) >= 3 => reviews[id].status = "HIDDEN"

\* three concurrent flags of a review that was ACTIVE have returned
C8_Witness ==
    /\ Quiescent
    /\ Cardinality(FlagsOn(1)) >= 3
    /\ reviews0[1].status = "ACTIVE"
    /\ reviews[1].status = "HIDDEN"

(* C9: a createReview call with a well-formed request, made while a live
   review of the same reviewer for the same client exists, returns the
   DUPLICATE_REVIEW failure and leaves the reviews, the client aggregates and
   the audit rows unchanged. *)
C9_DuplicateRejected ==
    [][\A p \in Procs :
          (/\ Calls(p, "createReview")
           /\ ValidRating(call'[p].rating)
           /\ LiveReviews(call'[p].clientProfileId, call'[p].reviewerId) # {})
          => /\ pc'[p] = "done"
             /\ ~result'[p].success
             /\ result'[p].error = "DUPLICATE_REVIEW"
             /\ reviews' = reviews
             /\ clients' = clients
             /\ adminActions' = adminActions]_vars

\* a duplicate submission was refused while the first review was FLAGGED
C9_Witness ==
    \E p \in Returned("createReview") :
        /\ result[p].error = "DUPLICATE_REVIEW"
        /\ \E i \in LiveReviews(call[p].clientProfileId, call[p].reviewerId) :
              reviews[i].status = "FLAGGED"

\* the well-formed createReview calls for (c, r) that have returned
CreatesFor(c, r) ==
    {p \in Returned("createReview") : /\ call[p].clientProfileId = c
                                      /\ call[p].reviewerId = r
                                      /\ ValidRating(call[p].rating)}

(* C10: once concurrent createReview calls of one reviewer for one client
   have all completed, exactly one ACTIVE review exists for the pair. *)
C10_OneReviewAfterRace ==
    Quiescent =>
        \A c \in ClientIds, r \in ReviewerIds :
            CreatesFor(c, r) # {} =>
                Cardinality({i \in ActiveOf(c) : reviews[i].reviewerId = r}) = 1

\* the returned checkRateLimit calls for one (actor, actionType) pair
ChecksOf(pair) ==
    {p \in Returned("checkRateLimit") :
        result[p].success /\ <<call[p].identifier, call[p].actionType>> = pair}

\* the stored rows of one (actor, actionType) pair
RowsOf(pair) ==
    {i \in DOMAIN rateLimits :
        /\ GetIdentifier(rateLimits[i].userId, rateLimits[i].telegramId) = pair[1]
        /\ rateLimits[i].actionType = pair[2]}

(* C3: with one configuration and calls made one at a time inside a single
   window, the k-th checkRateLimit call of an (actor, actionType) returns
   totalAttempts = k, allowed = (k <= maxAttempts) and
   remaining = max(0, maxAttempts - k). *)
C3_KthCallCounts ==
    \A pair \in RatePairs :
        \A p \in ChecksOf(pair) :
            attempts[pair].single =>
                LET k == attempts[pair].k
                    m == attempts[pair].config.maxAttempts
                IN /\ result[p].totalAttempts = k
                   /\ result[p].allowed = (k <= m)
                   /\ result[p].remaining = IF m - k > 0 THEN m - k ELSE 0

\* the call after the last admitted one of a window was denied
C3_Witness ==
    \E pair \in RatePairs :
        \E p \in ChecksOf(pair) :
            /\ attempts[pair].single
            /\ attempts[pair].k = attempts[pair].config.maxAttempts + 1
            /\ ~result[p].allowed
            /\ result[p].remaining = 0

(* C4: for concurrent checkRateLimit calls of one (actor, actionType) inside
   one window, at most maxAttempts of the calls are answered allowed. *)
C4_NoLostIncrement ==
    Quiescent =>
        \A pair \in RatePairs :
            attempts[pair].single =>
                Cardinality({p \in ChecksOf(pair) : result[p].allowed})
                    <= attempts[pair].config.maxAttempts

(* C5: after two concurrent first checkRateLimit calls of one
   (actor, actionType) have completed, exactly one rate-limit row exists for
   the pair and its count is 2. *)
C5_OneWindowRow ==
    Quiescent =>
        \A pair \in RatePairs :
            (/\ attempts[pair].single
             /\ attempts[pair].k = 2
             /\ Cardinality(ChecksOf(pair)) = 2)
            => /\ Cardinality(RowsOf(pair)) = 1
               /\ \A i \in RowsOf(pair) : rateLimits[i].count = 2

(* C11: after a successful deleteReview, calls run one at a time, the review
   is DELETED and its client's totalReviews and averageRating are the count
   and the mean of the remaining ACTIVE reviews: 0 and null when none is
   left. *)
C11_DeleteRecomputes ==
    \A p \in Returned("deleteReview") :
        result[p].success =>
            LET c == reviews[call[p].id].clientProfileId
            IN /\ reviews[call[p].id].status = "DELETED"
               /\ clients[c].totalReviews = Cardinality(ActiveOf(c))
               /\ clients[c].averageRating = MeanRating(c)
               /\ ActiveOf(c) = {} =>
                     clients[c].totalReviews = 0 /\ clients[c].averageRating = Null

\* the only review of a client, never flagged, has been deleted
C11_Witness ==
    \E p \in Returned("deleteReview") :
        /\ result[p].success
        /\ Len(reviews) = 1
        /\ reviews[1].flaggedCount = 0
        /\ Cardinality(adminActions) = 1
        /\ clients[reviews[1].clientProfileId] = NewClient

\* user u is the reviewer of the row or holds an elevated role
MayModify(u, row) ==
    \/ u = row.reviewerId
    \/ u \in DOMAIN UserRole /\ UserRole[u] \in {"ADMIN", "MANAGER"}

(* C12: updateReview on an existing review succeeds only for the review's
   reviewer or an ADMIN/MANAGER; for any other caller, an unknown user id
   included, it returns a failure and leaves the reviews and the client
   aggregates unchanged. *)
C12_OnlyOwnerOrElevated ==
    [][\A p \in Procs :
          /\ (/\ Calls(p, "updateReview")
              /\ call'[p].id \in DOMAIN reviews
              /\ ~MayModify(call'[p].updatedBy, reviews[call'[p].id]))
             => /\ pc'[p] = "done"
                /\ ~result'[p].success
                /\ reviews' = reviews
                /\ clients' = clients
          /\ (/\ pc[p] # "done"
              /\ pc'[p] = "done"
              /\ call'[p].op = "updateReview"
              /\ result'[p].success)
             => MayModify(call'[p].updatedBy, reviews'[call'[p].id])]_vars

\* an unknown user was refused while the reviewer's own update went through
C12_Witness ==
    \E p, q \in Returned("updateReview") :
        /\ call[p].updatedBy = 9
        /\ call[p].id \in DOMAIN reviews
        /\ ~result[p].success
        /\ ValidRating(call[p].rating)
        /\ result[q].success
        /\ call[q].updatedBy = reviews[call[q].id].reviewerId

(* C13: for a caller who is neither the reviewer nor ADMIN/MANAGER, two
   updateReview calls that differ only in whether the target review exists
   return the same failure. *)
C13_NoExistenceLeak ==
    \A p, q \in Returned("updateReview") :
        (/\ call[p].updatedBy = call[q].updatedBy
         /\ call[p].rating = call[q].rating
         /\ call[p].id \in DOMAIN reviews
         /\ ~MayModify(call[p].updatedBy, reviews[call[p].id])
         /\ call[q].id \notin DOMAIN reviews)
        => result[p] = result[q]

\* the SAFETY_ASSESSMENT rows of client c, and the most recent five of them
SafetyRowsOf(c) ==
    {i \in DOMAIN analyses : /\ analyses[i].clientProfileId = c
                             /\ analyses[i].analysisType = "SAFETY_ASSESSMENT"}

RecentSafetyRows(c) ==
    CHOOSE R \in SUBSET SafetyRowsOf(c) :
        /\ Cardinality(R) = IF Cardinality(SafetyRowsOf(c)) < 5
                            THEN Cardinality(SafetyRowsOf(c)) ELSE 5
        /\ \A i \in R, j \in SafetyRowsOf(c) \ R : j < i

MeanScore(ids) ==
    IF ids = {} THEN Null
    ELSE Fraction(SumScores(analyses, ids), Cardinality(ids))

(* C14: with createAnalysis calls run one at a time, whenever no call is in
   flight each client's aiSafetyScore is the unweighted mean of overallScore
   over its 5 most recent SAFETY_ASSESSMENT rows (all of them when fewer),
   and unset while it has none; so analyses of other kinds or of a photo
   never change it. *)
C14_AiScoreIsRecentMean ==
    Quiescent =>
        \A c \in ClientIds : clients[c].aiSafetyScore = MeanScore(RecentSafetyRows(c))

\* the scores 9, 9, 9, 1, 1, 1, 1, oldest first, have given 2.6
C14_Witness ==
    /\ \E p \in Returned("createAnalysis") : result[p].success
    /\ Len(analyses) = 7
    /\ \A i \in 1..7 : /\ i \in SafetyRowsOf(1)
                       /\ analyses[i].overallScore = IF i <= 3 THEN 9 ELSE 1
    /\ clients[1].aiSafetyScore = <<13, 5>>

(* C15: once concurrent createReview calls of different reviewers for one
   client have all completed, the client's totalReviews and averageRating are
   the count and the mean of the ACTIVE reviews of the final ledger. *)
C15_StatsConverge ==
    (/\ Quiescent
     /\ \A c \in ClientIds, r \in ReviewerIds : Cardinality(LiveReviews(c, r)) <= 1)
    => \A c \in ClientIds :
          /\ clients[c].totalReviews = Cardinality(ActiveOf(c))
          /\ clients[c].averageRating = MeanRating(c)

(* C16: a run of updateClientStatistics or of updateClientAiScore that
   follows an earlier run of the same recomputation, with no write to the
   reviews or the analyses in between, leaves totalReviews, averageRating
   and aiSafetyScore as they were after the earlier run. *)
C16_RecomputeIdempotent ==
    [][\A p \in Procs :
          (\/ /\ call[p].op = "updateClientStatistics"
              /\ pc[p] \in {"stats_read", "stats_write"}
              /\ call[p].statsRuns >= 2
           \/ /\ call[p].op = "updateClientAiScore"
              /\ pc[p] \in {"ai_read", "ai_write"}
              /\ call[p].aiRuns >= 2)
          => clients' = clients]_vars

\* both recomputations have run twice on a ledger with two ACTIVE reviews
\* and six safety assessments
C16_Witness ==
    \E p \in Procs :
        /\ pc[p] = "done"
        /\ call[p].op \in {"updateClientStatistics", "updateClientAiScore"}
        /\ call[p].statsRuns >= 2
        /\ call[p].aiRuns >= 2
        /\ clients[1].totalReviews = 2
        /\ clients[1].averageRating = <<3, 2>>
        /\ clients[1].aiSafetyScore = <<1, 1>>

(* C17: a checkRateLimit request with neither a userId nor a telegramId
   returns a failure, never an allowed/denied answer, and creates or changes
   no rate-limit row. *)
C17_NoIdentityIsFailure ==
    [][\A p \in Procs :
          (/\ Calls(p, "checkRateLimit")
           /\ call'[p].userId = Undefined
           /\ call'[p].telegramId = Undefined)
          => /\ pc'[p] = "done"
             /\ ~result'[p].success
             /\ result'[p].error = "ValidationError"
             /\ rateLimits' = rateLimits]_vars

\* a request without identity was refused while windows of others exist
C17_Witness ==
    \E p \in Returned("checkRateLimit") :
        /\ call[p].userId = Undefined
        /\ call[p].telegramId = Undefined
        /\ ~result[p].success
        /\ rateLimits # << >>

(* C19: the resetTime a successful checkRateLimit returns is the expiresAt
   stored on the row the call counted against (the row it created or
   updated), for admitted and for denied calls alike. *)
C19_ResetTimeIsExpiresAt ==
    [][\A p \in Procs :
          (pc[p] \in {"rl_update", "rl_create"} /\ pc'[p] = "done")
          => /\ result'[p].success
             /\ \E i \in DOMAIN rateLimits' :
                   /\ i \in DOMAIN rateLimits => rateLimits'[i] # rateLimits[i]
                   /\ result'[p].totalAttempts = rateLimits'[i].count
                   /\ result'[p].resetTime = rateLimits'[i].expiresAt]_vars

\* a denied call returned the expiry of a window that was extended after
\* it had been opened
C19_Witness ==
    \E p \in Returned("checkRateLimit") :
        /\ result[p].success
        /\ ~result[p].allowed
        /\ \E i \in DOMAIN rateLimits :
              /\ rateLimits[i].count = result[p].totalAttempts
              /\ rateLimits[i].expiresAt = result[p].resetTime
              /\ rateLimits[i].expiresAt - rateLimits[i].windowStart
                    > attempts[<<call[p].identifier, call[p].actionType>>].config.windowMinutes

\* the (actor, actionType) pair a request counts against
PairOf(req) ==
    <<IF req.userId # Undefined THEN <<"user", req.userId>>
      ELSE IF req.telegramId # Undefined THEN <<"telegram", req.telegramId>>
      ELSE Null,
      req.actionType>>

RECURSIVE SumCounts(_, _)
SumCounts(rows, ids) ==
    IF ids = {} THEN 0
    ELSE LET i == CHOOSE x \in ids : TRUE
         IN rows[i].count + SumCounts(rows, ids \ {i})

\* the attempts the table rows has counted for the pair
CountedFor(rows, pair) ==
    SumCounts(rows, {i \in DOMAIN rows : PairOf(rows[i]) = pair})

(* C18: a successful checkMultipleActions, run on its own, returns answers
   for a prefix of its requests, all allowed except possibly the last, the
   list being cut short only after a denied answer; each (actor, actionType)
   has been counted once per occurrence in that prefix, so the requests
   after the first denied one have changed no counter. *)
C18_FailFast ==
    \A p \in Returned("checkMultipleActions") :
        result[p].success =>
            LET rs == result[p].results
                reqs == call[p].requests
                n == Len(rs)
            IN /\ n <= Len(reqs)
               /\ \A k \in 1..(n - 1) : rs[k].allowed
               /\ n < Len(reqs) => n >= 1 /\ ~rs[n].allowed
               /\ \A pair \in RatePairs :
                     CountedFor(rateLimits, pair) =
                         CountedFor(call[p].before, pair)
                             + Cardinality({k \in 1..n : PairOf(reqs[k]) = pair})

\* the first request was denied and the second, of another actor, was
\* never counted
C18_Witness ==
    \E p \in Returned("checkMultipleActions") :
        /\ result[p].success
        /\ Len(result[p].results) = 1
        /\ ~result[p].results[1].allowed
        /\ Len(call[p].requests) = 2
        /\ PairOf(call[p].requests[2]) # PairOf(call[p].requests[1])
        /\ PairOf(call[p].requests[2])[1] # Null
        /\ CountedFor(rateLimits, PairOf(call[p].requests[2])) =
               CountedFor(call[p].before, PairOf(call[p].requests[2]))

\* the status changes the review life cycle allows
AllowedStatusChanges ==
    {<<"ACTIVE", "FLAGGED">>, <<"FLAGGED", "FLAGGED">>, <<"FLAGGED", "HIDDEN">>,
     <<"ACTIVE", "DELETED">>, <<"FLAGGED", "DELETED">>}

(* C20: every change of a review's status made by a step of a ReviewService
   operation is ACTIVE->FLAGGED, FLAGGED->HIDDEN, ACTIVE->DELETED or
   FLAGGED->DELETED (FLAGGED->FLAGGED changes nothing); a HIDDEN review never
   becomes FLAGGED or ACTIVE again. *)
C20_StatusChangesAllowed ==
    [][\A i \in DOMAIN reviews :
          reviews'[i].status # reviews[i].status =>
              <<reviews[i].status, reviews'[i].status>> \in AllowedStatusChanges]_vars

\* the rows of a pair with the latest windowStart
LatestRowsOf(pair) ==
    {i \in RowsOf(pair) :
        \A j \in RowsOf(pair) : rateLimits[j].windowStart <= rateLimits[i].windowStart}

(* C21: calls made one at a time: the first checkRateLimit call of an
   (actor, actionType) creates a record with windowStart = the time of the
   call and count = 1; a call at time t with t - windowStart <= windowLength
   increments the count of that same (latest) record and leaves its
   windowStart unchanged; a call with t - windowStart > windowLength creates
   a new record with windowStart = t and count = 1. *)
C21_WindowOpensAndCounts ==
    [][\A p \in Procs :
          (pc[p] \in {"rl_update", "rl_create"} /\ pc'[p] = "done")
          => LET pair == CallPair(p)
                 t == CallTime(p)
                 w == local[p].config.windowMinutes
             IN IF \E i \in RowsOf(pair) : t - rateLimits[i].windowStart <= w
                THEN \E i \in LatestRowsOf(pair) :
                        /\ Len(rateLimits') = Len(rateLimits)
                        /\ \A j \in DOMAIN rateLimits :
                              j # i => rateLimits'[j] = rateLimits[j]
                        /\ rateLimits'[i].count = rateLimits[i].count + 1
                        /\ rateLimits'[i].windowStart = rateLimits[i].windowStart
                ELSE /\ Len(rateLimits') = Len(rateLimits) + 1
                     /\ \A j \in DOMAIN rateLimits : rateLimits'[j] = rateLimits[j]
                     /\ LET row == rateLimits'[Len(rateLimits')]
                        IN /\ GetIdentifier(row.userId, row.telegramId) = pair[1]
                           /\ row.actionType = pair[2]
                           /\ row.count = 1
                           /\ row.windowStart \in t..now]_vars

\* a pair has a window that was opened, counted a second call and left
\* alone when a later call opened the next window
C21_Witness ==
    \E pair \in RatePairs :
        \E i, j \in RowsOf(pair) :
            /\ rateLimits[i].count >= 2
            /\ rateLimits[j].count = 1
            /\ rateLimits[j].windowStart > rateLimits[i].windowStart
            /\ attempts[pair].k = rateLimits[i].count + 1
            /\ \A p \in Procs : Ready(p)

(* C22: after any sequence of checkRateLimit calls every stored record has
   expiresAt = windowStart + windowLength of the configuration it was
   counted with: the expiry is fixed when the window opens and later
   increments do not move it.  Stated for the pairs whose calls all used
   one configuration inside one window. *)
C22_ExpiryFixedAtOpen ==
    \A pair \in RatePairs :
        attempts[pair].single =>
            \A i \in RowsOf(pair) :
                rateLimits[i].expiresAt =
                    rateLimits[i].windowStart + attempts[pair].config.windowMinutes

\* the calls of a pair answered allowed whose call times lie in from..to
AdmittedIn(pair, from, to) ==
    {n \in DOMAIN attempts[pair].admitted :
        attempts[pair].admitted[n] \in from..to}

(* C23: for one (actor, actionType) with a fixed configuration and calls
   made one at a time at arbitrary times, every time interval of length
   windowLength holds the call times of at most 2 x maxAttempts calls that
   were answered allowed. *)
C23_BurstBound ==
    \A pair \in RatePairs :
        attempts[pair].k > 0 =>
            \A from \in 0..MaxTime :
                Cardinality(AdmittedIn(pair, from,
                                       from + attempts[pair].config.windowMinutes))
                    <= 2 * attempts[pair].config.maxAttempts

\* a burst at a window boundary: an interval of one window length holds
\* more admitted calls than maxAttempts, made in two windows
C23_Witness ==
    \E pair \in RatePairs :
        /\ Cardinality(RowsOf(pair)) = 2
        /\ \E from \in 0..MaxTime :
              Cardinality(AdmittedIn(pair, from,
                                     from + attempts[pair].config.windowMinutes))
                  > attempts[pair].config.maxAttempts

\* the rows the admission query of the call of process p would have to
\* choose from had no cleanup run: the stored and the swept rows of the pair
\* with windowStart >= the call's windowStart
CandidatesWithSwept(p) ==
    {rateLimits[i] : i \in MatchingLimitIds(rateLimits, call[p], local[p].windowStart)}
    \cup {row \in attempts[CallPair(p)].swept : row.windowStart >= local[p].windowStart}

\* the totalAttempts those rows give the call: one more than the count of
\* the row with the latest windowStart, or 1 when there is none
CountWithSwept(p) ==
    IF CandidatesWithSwept(p) = {} THEN {1}
    ELSE {row.count + 1 : row \in {r \in CandidatesWithSwept(p) :
              \A q \in CandidatesWithSwept(p) : q.windowStart <= r.windowStart}}

(* C24: running cleanupExpiredLimits at any points of a sequence of
   checkRateLimit calls, calls that override maxAttempts/windowMinutes
   included, changes the result of no check: a call returns the allowed,
   remaining and totalAttempts it returns without any cleanup, that is, the
   ones the table with the swept rows put back gives it. *)
C24_CleanupChangesNoResult ==
    [][\A p \in Procs :
          (pc[p] \in {"rl_update", "rl_create"} /\ pc'[p] = "done")
          => \E n \in CountWithSwept(p) :
                /\ result'[p].totalAttempts = n
                /\ result'[p].allowed = Allowed(n, local[p].config)
                /\ result'[p].remaining = Remaining(n, local[p].config)]_vars

(* C29: when getRateLimitStatus answers allowed = true for an (actor,
   actionType) under the default configuration, the checkRateLimit call
   made for the same pair right after it, with no call in between, is
   answered allowed = true. *)
C29_StatusPredictsCheck ==
    (/\ pc[2] = "done" /\ call[2].op = "getRateLimitStatus"
     /\ result[2].success /\ result[2].allowed
     /\ pc[3] = "done" /\ call[3].op = "checkRateLimit"
     /\ result[3].success)
    => result[3].allowed

(* C29, second half: getRateLimitStatus creates or modifies no rate-limit
   record *)
C29_StatusWritesNothing ==
    [][(pc[2] = "st_find" \/ pc'[2] = "st_find") => rateLimits' = rateLimits]_vars

(* C30: with a fixed configuration with maxAttempts >= 1 and calls made one
   at a time, a denied actor is admitted again however often it retries: a
   denied call never moves the windowStart of a record (and opens no
   record), and every call made more than windowLength after the latest
   windowStart of its pair opens a new window and is answered
   allowed = true with totalAttempts = 1. *)
C30_DeniedIsAdmittedAgain ==
    [][\A p \in Procs :
          (pc[p] \in {"rl_update", "rl_create"} /\ pc'[p] = "done")
          => /\ ~result'[p].allowed
                => /\ Len(rateLimits') = Len(rateLimits)
                   /\ \A i \in DOMAIN rateLimits :
                         rateLimits'[i].windowStart = rateLimits[i].windowStart
             /\ (\A i \in RowsOf(CallPair(p)) :
                    CallTime(p) - rateLimits[i].windowStart > BurstLimits[2])
                => /\ result'[p].allowed
                   /\ result'[p].totalAttempts = 1
                   /\ Len(rateLimits') = Len(rateLimits) + 1
                   /\ rateLimits'[Len(rateLimits')].windowStart >= CallTime(p)]_vars

\* an actor was denied in one window, retried, and was admitted with
\* totalAttempts = 1 by the call that came after the window had passed
C30_Witness ==
    \E p \in Returned("checkRateLimit") :
        /\ result[p].success /\ result[p].allowed
        /\ result[p].totalAttempts = 1
        /\ \E i \in RowsOf(CallPair(p)) :
              /\ rateLimits[i].count > BurstLimits[1] + 1
              /\ rateLimits[i].windowStart + BurstLimits[2] < now

\* the derived fields of a client_profiles row
DerivedFields(row) == <<row.totalReviews, row.averageRating, row.aiSafetyScore>>

(* C25: the derived fields of a client profile (totalReviews,
   averageRating, aiSafetyScore) are written only by updateClientStatistics
   and updateClientAiScore: no step of a ClientService operation
   (updateClient, deleteClient) changes any of them. *)
C25_ClientServiceKeepsDerived ==
    [][\A p \in Procs :
          call'[p].op \in {"updateClient", "deleteClient"}
          => \A c \in DOMAIN clients :
                DerivedFields(clients'[c]) = DerivedFields(clients[c])]_vars

\* the value stored for a key: the parsed row, the built-in default when
\* there is no row, null when there is neither
StoredValue(key) ==
    IF botConfigs[key] # NoRow THEN JsonParse(botConfigs[key])
    ELSE IF DEFAULT_CONFIGS(key) # Null THEN DEFAULT_CONFIGS(key)[1]
    ELSE JsNull

(* C26: on one BotConfigService instance with calls made one at a time,
   after any sequence of setConfig, updateConfig, deleteConfig, bulkUpdate,
   initializeDefaults and getConfig calls, getConfig(key) with caching
   enabled returns the value currently stored for key (the built-in default
   when no row exists, null when there is neither), and it serves no cache
   entry written more than the 5-minute TTL earlier. *)
C26_CacheServesStoredValue ==
    \A p \in Procs :
        (pc[p] = "done" /\ call[p].op = "getConfig" /\ call[p].useCache)
        => /\ result[p].success
           /\ result[p].data = StoredValue(call[p].key)
           /\ call[p].cached => call[p].age < CACHE_TTL

(* C27: the review a successful flagReview returns reflects the stored
   state after the operation: its status is the stored status of the review
   (HIDDEN when the auto-hide rule fired), and the flagCount written to the
   audit entry is the stored flaggedCount after the increment. *)
C27_FlagResultIsStoredState ==
    [][\A p \in Procs :
          /\ (call[p].op = "flagReview" /\ pc[p] # "done" /\ pc'[p] = "done"
              /\ result'[p].success)
             => result'[p].review.status = reviews'[call[p].id].status
          /\ pc[p] = "flag_audit"
             => \A row \in adminActions' \ adminActions :
                   row.flagCount = reviews[call[p].id].flaggedCount]_vars

(* C27, the returned status alone *)
C27_ReturnedStatusIsStored ==
    \A p \in Returned("flagReview") :
        result[p].success => result[p].review.status = reviews[call[p].id].status

(* C28: when the store may fail at any single step, a createReview call
   that returns a failure result has added no review to the ledger and a
   deleteReview call that returns a failure result has not changed the
   status of the review: a failure result means the ledger is as it was
   when the call was made. *)
C28_FailureLeavesLedger ==
    \A p \in Procs :
        (/\ pc[p] = "done"
         /\ call[p].op \in {"createReview", "deleteReview"}
         /\ ~result[p].success)
        => reviews = reviews0

=============================================================================
